---- MODULE Spec2Model ----
(***************************************************************************)
(* Model of streamlit_app.py: the Hummingbot live dashboard.  One run of   *)
(* the script is one refresh cycle: health, bots/instances, PnL, orders,   *)
(* trades, the bots tab, then sleep and rerun.  api_get is cached for      *)
(* TTL seconds, df_safe turns a JSON body into a pandas DataFrame.         *)
(***************************************************************************)
EXTENDS Integers, Sequences, FiniteSets, TLC

VARIABLES
    pc,             \* position of the script within the cycle
    cycle,          \* number of the running cycle (1 = first run)
    refresh_sec,    \* the sidebar slider's value
    api_base,       \* TRUE when API_BASE is a non-empty string
    cache,          \* st.cache_data store of api_get: path -> entry
    calls,          \* api_get calls made so far in this cycle
    bots_json, instances_json,
    bots_df, inst_df,
    metric,         \* what the running-count metric shows
    probe,          \* result of the probe loop of the panel last run
    panel,          \* what the panel last rendered shows
    rendered,       \* panels rendered so far in this cycle
    errors,         \* st.error calls made so far in this cycle
    backend,        \* which paths the API behind API_BASE serves
    fn_op, fn_arg, fn_res   \* a helper function applied on its own

vars == <<pc, cycle, refresh_sec, api_base, cache, calls, bots_json,
          instances_json, bots_df, inst_df, metric, probe, panel, rendered,
          errors, backend, fn_op, fn_arg, fn_res>>

-----------------------------------------------------------------------------
(* Strings whose characters matter (lower(), substring search) are         *)
(* sequences of one-character strings.                                     *)

UpperChars == <<"A","B","C","D","E","F","G","H","I","J","K","L","M",
                "N","O","P","Q","R","S","T","U","V","W","X","Y","Z">>
LowerChars == <<"a","b","c","d","e","f","g","h","i","j","k","l","m",
                "n","o","p","q","r","s","t","u","v","w","x","y","z">>

\* str.lower() on one character
LowerChar(c) ==
    IF \E i \in 1..Len(UpperChars) : UpperChars[i] = c
    THEN LowerChars[CHOOSE i \in 1..Len(UpperChars) : UpperChars[i] = c]
    ELSE c

\* str.lower()
Lower(s) == [i \in 1..Len(s) |-> LowerChar(s[i])]

\* needle occurs in hay as a contiguous substring
Contains(hay, needle) ==
    \E i \in 0..(Len(hay) - Len(needle)) :
        \A j \in 1..Len(needle) : hay[i + j] = needle[j]

s_data == <<"d", "a", "t", "a">>
s_result == <<"r", "e", "s", "u", "l", "t">>
s_items == <<"i", "t", "e", "m", "s">>
s_status == <<"s", "t", "a", "t", "u", "s">>
s_state == <<"s", "t", "a", "t", "e">>
s_running == <<"r", "u", "n", "n", "i", "n", "g">>
s_run == <<"r", "u", "n">>
s_true == <<"t", "r", "u", "e">>
s_active == <<"a", "c", "t", "i", "v", "e">>
s_online == <<"o", "n", "l", "i", "n", "e">>
s_timestamp == <<"t", "i", "m", "e", "s", "t", "a", "m", "p">>
s_time == <<"t", "i", "m", "e">>
s_ts == <<"t", "s">>
s_date == <<"d", "a", "t", "e">>
s_pnl == <<"p", "n", "l">>
s_net_pnl == <<"n", "e", "t", "_", "p", "n", "l">>
s_profit == <<"p", "r", "o", "f", "i", "t">>
s_netProfit == <<"n", "e", "t", "P", "r", "o", "f", "i", "t">>
s_volume == <<"v", "o", "l", "u", "m", "e">>
s_quote_volume == <<"q", "u", "o", "t", "e", "_", "v", "o", "l", "u", "m", "e">>
s_turnover == <<"t", "u", "r", "n", "o", "v", "e", "r">>
\* strings that only occur in responses
s_RUNNING == <<"R", "U", "N", "N", "I", "N", "G">>
s_stopped == <<"s", "t", "o", "p", "p", "e", "d">>
s_ACTIVE_now == <<"A", "C", "T", "I", "V", "E", "_", "n", "o", "w">>
s_Status == <<"S", "t", "a", "t", "u", "s">>
s_STATE == <<"S", "T", "A", "T", "E">>
s_PNL == <<"P", "N", "L">>
s_Timestamp == <<"T", "i", "m", "e", "s", "t", "a", "m", "p">>
s_pnl_total == <<"p", "n", "l", "_", "t", "o", "t", "a", "l">>
s_name == <<"n", "a", "m", "e">>
s_id == <<"i", "d">>
s_None == <<"N", "o", "n", "e">>
s_True == <<"T", "r", "u", "e">>
s_False == <<"F", "a", "l", "s", "e">>
s_nan == <<"n", "a", "n">>
s_ok == <<"o", "k">>
Digits == <<"0","1","2","3","4","5","6","7","8","9">>

-----------------------------------------------------------------------------
(* JSON values as r.json() returns them: None, bool, number, str, list,    *)
(* dict (insertion-ordered key/value pairs).                               *)

JNull == <<"null">>
JBool(b) == <<"bool", b>>
JNum(n) == <<"num", n>>
JStr(s) == <<"str", s>>
JArr(elems) == <<"arr", elems>>
JObj(pairs) == <<"obj", pairs>>
NaN == <<"nan">>            \* the filler pandas uses for a missing cell

Tag(v) == v[1]
IsDict(v) == Tag(v) = "obj"
IsList(v) == Tag(v) = "arr"
Keys(o) == [i \in 1..Len(o[2]) |-> o[2][i][1]]
HasKey(o, k) == \E i \in 1..Len(o[2]) : o[2][i][1] = k
Get(o, k) == o[2][CHOOSE i \in 1..Len(o[2]) : o[2][i][1] = k][2]

\* the index of x's first occurrence in s (0 when absent)
IndexOf(s, x) ==
    IF \E i \in 1..Len(s) : s[i] = x
    THEN CHOOSE i \in 1..Len(s) : s[i] = x /\ \A j \in 1..(i - 1) : s[j] # x
    ELSE 0

-----------------------------------------------------------------------------
(* pandas.DataFrame: ordered columns and rows of cells; a call that raises *)
(* is the value Raised(exception).  A column label is a string (a dict     *)
(* key) or an integer (the RangeIndex pandas gives data without keys).     *)

StrCol(s) == <<"s", s>>
IntCol(i) == <<"i", i>>
DF(cols, rows) == [exc |-> "", cols |-> cols, rows |-> rows]
Raised(e) == [exc |-> e, cols |-> <<>>, rows |-> <<>>]
EmptyDF == DF(<<>>, <<>>)
IsRaised(df) == df.exc # ""

\* DataFrame.empty: some axis has length 0
IsEmpty(df) == Len(df.cols) = 0 \/ Len(df.rows) = 0
\* len(df)
NRows(df) == Len(df.rows)

\* the union of the dicts' keys in first-seen order
RECURSIVE UnionKeys(_, _)
UnionKeys(elems, acc) ==
    IF elems = <<>> THEN acc
    ELSE LET ks == Keys(Head(elems))
             new == SelectSeq(ks, LAMBDA k : IndexOf(acc, k) = 0)
         IN UnionKeys(Tail(elems), acc \o new)

\* len() of a list element; scalars other than str have none
HasLen(v) == Tag(v) \in {"arr", "obj", "str"}
\* list(v) of an element that has a length
AsList(v) ==
    IF Tag(v) = "arr" THEN v[2]
    ELSE IF Tag(v) = "obj" THEN [i \in 1..Len(v[2]) |-> JStr(v[2][i][1])]
    ELSE [i \in 1..Len(v[2]) |-> JStr(<<v[2][i]>>)]

MaxOf(S) == IF S = {} THEN 0 ELSE CHOOSE m \in S : \A x \in S : x <= m

\* pd.DataFrame(list of dicts): a later element without keys() raises
FromDicts(elems) ==
    IF \E i \in 1..Len(elems) : ~IsDict(elems[i])
    THEN Raised("AttributeError")
    ELSE LET cols == UnionKeys(elems, <<>>)
         IN DF([j \in 1..Len(cols) |-> StrCol(cols[j])],
               [i \in 1..Len(elems) |->
                  [j \in 1..Len(cols) |->
                     IF HasKey(elems[i], cols[j]) THEN Get(elems[i], cols[j])
                     ELSE NaN]])

\* pd.DataFrame(list of lists): a later element without len() raises
FromLists(elems) ==
    IF \E i \in 1..Len(elems) : ~HasLen(elems[i])
    THEN Raised("TypeError")
    ELSE LET k == MaxOf({Len(AsList(elems[i])) : i \in 1..Len(elems)})
         IN DF([j \in 1..k |-> IntCol(j - 1)],
               [i \in 1..Len(elems) |->
                  [j \in 1..k |->
                     IF j <= Len(AsList(elems[i])) THEN AsList(elems[i])[j]
                     ELSE JNull]])

\* pd.DataFrame(list of scalars): one column labelled 0
FromScalars(elems) ==
    DF(<<IntCol(0)>>, [i \in 1..Len(elems) |-> <<elems[i]>>])

\* pd.DataFrame(data) for a list: the first element decides the layout
DataFrame(elems) ==
    IF elems = <<>> THEN EmptyDF
    ELSE IF IsDict(elems[1]) THEN FromDicts(elems)
    ELSE IF IsList(elems[1]) THEN FromLists(elems)
    ELSE FromScalars(elems)

\* EnvelopeKey with the keys tried in the opposite order
EnvelopeKeyReversed(obj) ==
    LET keys == <<s_items, s_result, s_data>>
        hit(i) == HasKey(obj, keys[i]) /\ IsList(Get(obj, keys[i]))
    IN IF \E i \in 1..3 : hit(i)
       THEN <<keys[CHOOSE i \in 1..3 : hit(i) /\ \A j \in 1..(i - 1) : ~hit(j)]>>
       ELSE <<>>

\* the first of data, result, items that is a key of obj holding a list
EnvelopeKey(obj) ==
    LET keys == <<s_data, s_result, s_items>>
        hit(i) == HasKey(obj, keys[i]) /\ IsList(Get(obj, keys[i]))
    IN IF \E i \in 1..3 : hit(i)
       THEN <<keys[CHOOSE i \in 1..3 : hit(i) /\ \A j \in 1..(i - 1) : ~hit(j)]>>
       ELSE <<>>

\* df_safe(obj)
df_safe(obj) ==
    IF obj = JNull THEN EmptyDF
    ELSE IF IsDict(obj) THEN
        IF EnvelopeKey(obj) # <<>>
        THEN DataFrame(Get(obj, EnvelopeKey(obj)[1])[2])
        ELSE DataFrame(<<obj>>)
    ELSE IF IsList(obj) THEN DataFrame(obj[2])
    ELSE EmptyDF

-----------------------------------------------------------------------------
(* Status column, running count (lines 101-120) and pick (lines 143-147).  *)

None == <<"none">>
Col(c) == <<"col", c>>
Exc(e) == <<"raise", e>>

StatusNames == {s_status, s_state, s_running}

\* IsStatusName without the lower()
IsStatusNameExact(c) == c[1] = "s" /\ c[2] \in StatusNames

\* c.lower() in ("status", "state", "running"); an integer label has no lower()
IsStatusName(c) == c[1] = "s" /\ Lower(c[2]) \in StatusNames

\* next((c for c in df.columns if c.lower() in (...)), None)
status_col(df) ==
    LET cols == df.cols
        hit(i) == IsStatusName(cols[i])
        bad(i) == cols[i][1] = "i"
        first == IF \E i \in 1..Len(cols) : hit(i) \/ bad(i)
                 THEN CHOOSE i \in 1..Len(cols) :
                        /\ hit(i) \/ bad(i)
                        /\ \A j \in 1..(i - 1) : ~(hit(j) \/ bad(j))
                 ELSE 0
    IN IF first = 0 THEN None
       ELSE IF bad(first) THEN Exc("AttributeError")
       ELSE Col(cols[first])

\* str(n) of a natural number
RECURSIVE NatStr(_)
NatStr(n) == IF n < 10 THEN <<Digits[n + 1]>>
             ELSE NatStr(n \div 10) \o <<Digits[(n % 10) + 1]>>

RECURSIVE JoinRepr(_, _)
RECURSIVE Repr(_)
\* repr(v): how a value nested in a list or dict prints
Repr(v) ==
    CASE Tag(v) = "null" -> s_None
      [] Tag(v) = "nan" -> s_nan
      [] Tag(v) = "bool" -> IF v[2] THEN s_True ELSE s_False
      [] Tag(v) = "num" -> NatStr(v[2])
      [] Tag(v) = "str" -> <<"'">> \o v[2] \o <<"'">>
      [] Tag(v) = "arr" -> <<"[">> \o JoinRepr(v[2], FALSE) \o <<"]">>
      [] Tag(v) = "obj" -> <<"{">> \o JoinRepr(v[2], TRUE) \o <<"}">>
JoinRepr(elems, pairs) ==
    IF elems = <<>> THEN <<>>
    ELSE LET one == IF pairs
                    THEN Repr(JStr(Head(elems)[1])) \o <<":", " ">>
                         \o Repr(Head(elems)[2])
                    ELSE Repr(Head(elems))
         IN IF Len(elems) = 1 THEN one
            ELSE one \o <<",", " ">> \o JoinRepr(Tail(elems), pairs)

\* astype(str) of one cell
StrForm(v) == IF Tag(v) = "str" THEN v[2] ELSE Repr(v)

RunWords == {s_run, s_true, s_active, s_online}

\* IsRunningValue with case=True
IsRunningValueCased(v) == \E w \in RunWords : Contains(StrForm(v), w)

\* str.contains("run|true|active|online", case=False) on one cell
IsRunningValue(v) == \E w \in RunWords : Contains(Lower(StrForm(v)), w)

\* df[col]: the cells of one column
Column(df, c) == [i \in 1..Len(df.rows) |-> df.rows[i][IndexOf(df.cols, c)]]

\* int(df[col].astype(str).str.contains(...).sum())
CountRunning(df, c) ==
    Cardinality({i \in 1..NRows(df) : IsRunningValue(Column(df, c)[i])})

\* lines 105-109 and 112-116: the running count of one table
running_of(df) ==
    LET sc == status_col(df)
    IN IF sc[1] = "raise" THEN sc
       ELSE IF sc = None THEN <<"n", NRows(df)>>
       ELSE <<"n", CountRunning(df, sc[2])>>

\* lines 98-120: what the second column's metric shows
running_metric(bj, ij) ==
    LET b == df_safe(bj)
        i == df_safe(ij)
    IN IF IsRaised(b) THEN [exc |-> b.exc, label |-> "", value |-> 0, total |-> 0]
       ELSE IF IsRaised(i) THEN [exc |-> i.exc, label |-> "", value |-> 0, total |-> 0]
       ELSE IF ~IsEmpty(b) THEN
            IF running_of(b)[1] = "raise"
            THEN [exc |-> running_of(b)[2], label |-> "", value |-> 0, total |-> 0]
            ELSE [exc |-> "", label |-> "Bots (running)",
                  value |-> running_of(b)[2], total |-> NRows(b)]
       ELSE IF ~IsEmpty(i) THEN
            IF running_of(i)[1] = "raise"
            THEN [exc |-> running_of(i)[2], label |-> "", value |-> 0, total |-> 0]
            ELSE [exc |-> "", label |-> "Instances (running)",
                  value |-> running_of(i)[2], total |-> NRows(i)]
       ELSE [exc |-> "", label |-> "Bots", value |-> 0, total |-> 0]

\* maybe_cols["ts"], ["pnl"], ["vol"]
ts_names == <<s_timestamp, s_time, s_ts, s_date>>
pnl_names == <<s_pnl, s_net_pnl, s_profit, s_netProfit>>
vol_names == <<s_volume, s_quote_volume, s_turnover>>

\* n in df.columns
InColumns(df, n) == \E i \in 1..Len(df.cols) : df.cols[i] = StrCol(n)

\* pick with the loop over the columns instead of the names
pick_by_column(df, names) ==
    LET named(i) == \E k \in 1..Len(names) : df.cols[i] = StrCol(names[k])
    IN IF \E i \in 1..Len(df.cols) : named(i)
       THEN Col(df.cols[CHOOSE i \in 1..Len(df.cols) :
                          named(i) /\ \A j \in 1..(i - 1) : ~named(j)])
       ELSE None

\* pick(df, names)
pick(df, names) ==
    IF \E k \in 1..Len(names) : InColumns(df, names[k])
    THEN Col(StrCol(names[CHOOSE k \in 1..Len(names) :
                        /\ InColumns(df, names[k])
                        /\ \A j \in 1..(k - 1) : ~InColumns(df, names[j])]))
    ELSE None

-----------------------------------------------------------------------------
(* api_get (lines 16-30) behind st.cache_data(ttl=10).                     *)

TTL == 10           \* st.cache_data(ttl=10)
SliderMin == 3      \* st.slider("Auto-refresh (sec)", 3, 60, 10)
SliderMax == 60
SliderDefault == 10

NoParams == "none"
Limit500 == "limit=500"         \* params={"limit": 500}
Key(path, params) == <<path, params>>

HealthPath == "/health"
BotsPath == "/bots"
InstancesPath == "/instances"
PnLPaths == <<"/pnl", "/stats/pnl", "/performance/pnl">>
OrdersPaths == <<"/orders/open", "/orders", "/active_orders", "/bots/orders">>
TradesPaths == <<"/trades", "/executions", "/fills">>

SeqRange(s) == {s[i] : i \in 1..Len(s)}
AllKeys == {Key(HealthPath, NoParams), Key(BotsPath, NoParams),
            Key(InstancesPath, NoParams)}
           \cup {Key(p, NoParams) : p \in SeqRange(PnLPaths) \cup SeqRange(OrdersPaths)}
           \cup {Key(p, Limit500) : p \in SeqRange(TradesPaths)}

NoEntry == <<"absent">>
Entry(body, age, born) == <<"entry", body, age, born>>

\* what one HTTP GET can come to: a parsed body, a non-2xx status, or a
\* transport or JSON failure
Body(b) == <<"body", b>>
FailHTTP == <<"fail", "http">>
FailRequest == <<"fail", "request">>

\* the outcome of an api_get call: a value or the RuntimeError raised
Ok(b) == <<"ok", b>>
Err(kind, path) == <<"err", kind, path>>
NoErr == <<"noerr">>

\* one api_get call on the cache c, with resp the answer the server would
\* give: the outcome, the cache afterwards and the record of the call
api_get(path, params, resp, c, cyc) ==
    LET k == Key(path, params)
    IN IF c[k] # NoEntry
       THEN [res |-> Ok(c[k][2]), cache |-> c,
             call |-> [path |-> path, via |-> "cache", ok |-> TRUE, born |-> c[k][4]]]
       ELSE IF ~api_base
       THEN [res |-> Err("config", path), cache |-> c,
             call |-> [path |-> path, via |-> "none", ok |-> FALSE, born |-> cyc]]
       ELSE IF resp[1] = "fail"
       THEN [res |-> Err(resp[2], path), cache |-> c,
             call |-> [path |-> path, via |-> "http", ok |-> FALSE, born |-> cyc]]
       ELSE [res |-> Ok(resp[2]),
             cache |-> [c EXCEPT ![k] = Entry(resp[2], 0, cyc)],
             call |-> [path |-> path, via |-> "http", ok |-> TRUE, born |-> cyc]]

\* an entry older than the ttl is gone
Expired(age) == age >= TTL

\* the cache after dt seconds: entries age, the expired ones are dropped
AgeCache(c, dt) ==
    [k \in DOMAIN c |->
        IF c[k] = NoEntry THEN NoEntry
        ELSE IF Expired(c[k][3] + dt) THEN NoEntry
        ELSE Entry(c[k][2], c[k][3] + dt, c[k][4])]

-----------------------------------------------------------------------------
(* The probe loops (lines 123-132, 169-178, 190-199).                      *)

\* one pass of a probe loop: the api_get call and what came of it
Tried(call, err) == [call |-> call, err |-> err]

\* probe_from without the break: the loop goes on after a non-empty table
RECURSIVE probe_from_no_break(_, _, _, _, _, _, _, _, _)
probe_from_no_break(paths, params, resps, i, df, err, c, log, cyc) ==
    IF i > Len(paths) THEN [df |-> df, err |-> err, cache |-> c, tried |-> log]
    ELSE LET r == api_get(paths[i], params, resps[i], c, cyc)
         IN IF r.res[1] = "err"
            THEN probe_from_no_break(paths, params, resps, i + 1, df, r.res, r.cache,
                                     Append(log, Tried(r.call, r.res)), cyc)
            ELSE LET d == df_safe(r.res[2])
                     e == Err(d.exc, paths[i])
                 IN IF IsRaised(d)
                    THEN probe_from_no_break(paths, params, resps, i + 1, df, e, r.cache,
                                             Append(log, Tried(r.call, e)), cyc)
                    ELSE probe_from_no_break(paths, params, resps, i + 1, d, err, r.cache,
                                             Append(log, Tried(r.call, NoErr)), cyc)

\* probe_from that keeps the first error instead of the last
RECURSIVE probe_from_first_err(_, _, _, _, _, _, _, _, _)
probe_from_first_err(paths, params, resps, i, df, err, c, log, cyc) ==
    IF i > Len(paths) THEN [df |-> df, err |-> err, cache |-> c, tried |-> log]
    ELSE LET r == api_get(paths[i], params, resps[i], c, cyc)
             keep(e) == IF err = NoErr THEN e ELSE err
         IN IF r.res[1] = "err"
            THEN probe_from_first_err(paths, params, resps, i + 1, df, keep(r.res),
                                      r.cache, Append(log, Tried(r.call, r.res)), cyc)
            ELSE LET d == df_safe(r.res[2])
                     e == Err(d.exc, paths[i])
                 IN IF IsRaised(d)
                    THEN probe_from_first_err(paths, params, resps, i + 1, df, keep(e),
                                              r.cache, Append(log, Tried(r.call, e)), cyc)
                    ELSE IF ~IsEmpty(d)
                    THEN [df |-> d, err |-> err, cache |-> r.cache,
                          tried |-> Append(log, Tried(r.call, NoErr))]
                    ELSE probe_from_first_err(paths, params, resps, i + 1, d, err,
                                              r.cache, Append(log, Tried(r.call, NoErr)), cyc)

\* the loop from candidate i on: df and err are the loop's variables, c the
\* cache, log the passes made so far
RECURSIVE probe_from(_, _, _, _, _, _, _, _, _)
probe_from(paths, params, resps, i, df, err, c, log, cyc) ==
    IF i > Len(paths) THEN [df |-> df, err |-> err, cache |-> c, tried |-> log]
    ELSE LET r == api_get(paths[i], params, resps[i], c, cyc)
         IN IF r.res[1] = "err"
            THEN probe_from(paths, params, resps, i + 1, df, r.res, r.cache,
                            Append(log, Tried(r.call, r.res)), cyc)
            ELSE LET d == df_safe(r.res[2])
                     e == Err(d.exc, paths[i])
                 IN IF IsRaised(d)
                    THEN probe_from(paths, params, resps, i + 1, df, e, r.cache,
                                    Append(log, Tried(r.call, e)), cyc)
                    ELSE IF ~IsEmpty(d)
                    THEN [df |-> d, err |-> err, cache |-> r.cache,
                          tried |-> Append(log, Tried(r.call, NoErr))]
                    ELSE probe_from(paths, params, resps, i + 1, d, err, r.cache,
                                    Append(log, Tried(r.call, NoErr)), cyc)

probe_loop(paths, params, resps, c, cyc) ==
    probe_from(paths, params, resps, 1, EmptyDF, NoErr, c, <<>>, cyc)

s_bot_id == <<"b", "o", "t", "_", "i", "d">>
s_pair == <<"p", "a", "i", "r">>
s_symbol == <<"s", "y", "m", "b", "o", "l">>
s_side == <<"s", "i", "d", "e">>
s_price == <<"p", "r", "i", "c", "e">>
s_size == <<"s", "i", "z", "e">>
s_created_at == <<"c", "r", "e", "a", "t", "e", "d", "_", "a", "t">>
s_qty == <<"q", "t", "y">>
s_fee == <<"f", "e", "e">>

orders_pref == <<s_id, s_bot_id, s_pair, s_symbol, s_side, s_price, s_size,
                 s_status, s_created_at>>
trades_pref == <<s_id, s_bot_id, s_pair, s_symbol, s_side, s_price, s_qty,
                 s_fee, s_pnl, s_ts, s_timestamp>>

\* [c for c in pref if c in df.columns], or all columns when none is there
cols_pref(df, pref) ==
    LET keep == SelectSeq(pref, LAMBDA n : InColumns(df, n))
    IN IF keep = <<>> THEN df.cols ELSE [i \in 1..Len(keep) |-> StrCol(keep[i])]

\* what a panel shows: the table handed to st.dataframe (with the columns
\* shown), the st.caption with the error, the st.info notice
Shown(name, df, cols, caption, info) ==
    [name |-> name, table |-> df, cols |-> cols, caption |-> caption, info |-> info]
NoPanel == Shown("", EmptyDF, <<>>, NoErr, FALSE)

\* lines 134-163
pnl_panel(df, err) ==
    IF ~IsEmpty(df)
    THEN Shown("pnl", df, <<pick(df, ts_names), pick(df, pnl_names),
                            pick(df, vol_names)>>, NoErr, FALSE)
    ELSE Shown("pnl", df, <<>>, err, FALSE)

\* lines 180-187 and 201-207
table_panel(name, df, err, pref) ==
    IF IsEmpty(df) THEN Shown(name, df, <<>>, err, TRUE)
    ELSE Shown(name, df, cols_pref(df, pref), NoErr, FALSE)

-----------------------------------------------------------------------------
(* The backend: what it may answer to a GET of each path.                  *)

MaxCycles == 2      \* script runs modelled before the rerun is cut off

row_run == JObj(<<<<s_id, JNum(1)>>, <<s_status, JStr(s_RUNNING)>>, <<s_pnl, JNum(5)>>>>)
row_stop == JObj(<<<<s_id, JNum(2)>>, <<s_status, JStr(s_stopped)>>>>)
b_empty == JArr(<<>>)
b_rows == JObj(<<<<s_data, JArr(<<row_run, row_stop>>)>>>>)
b_mixed == JArr(<<row_run, JNum(1)>>)       \* pd.DataFrame raises on it
b_scalars == JArr(<<JNum(1), JNum(2)>>)     \* gives an integer column label

b_health == JObj(<<<<s_status, JStr(s_ok)>>>>)

\* what the backend may answer to a GET of path.  "any": every path may
\* fail, be empty or hold rows, and /bots and /instances may hold lists
\* pandas cannot tabulate.  "partial": the API has no /instances and no
\* orders path (404), the other paths fail or hold rows.
Server(path) ==
    IF backend = "any" THEN
        IF path = HealthPath THEN {FailRequest, FailHTTP, Body(b_health)}
        ELSE IF path \in {BotsPath, InstancesPath}
        THEN {FailRequest, Body(b_rows), Body(b_mixed), Body(b_scalars)}
        ELSE {FailRequest, Body(b_empty), Body(b_rows)}
    ELSE
        IF path = HealthPath THEN {FailRequest, Body(b_health)}
        ELSE IF path = InstancesPath \/ path \in SeqRange(OrdersPaths)
        THEN {FailHTTP}
        ELSE {FailRequest, Body(b_rows)}

RefreshChoices == {SliderDefault}
RefreshChoicesShort == {SliderMin, SliderDefault}

-----------------------------------------------------------------------------
(* The script, one action per section.                                     *)

NoProbe == [df |-> EmptyDF, err |-> NoErr, tried |-> <<>>]
CallsOf(tried) == [i \in 1..Len(tried) |-> tried[i].call]
NoMetric == [exc |-> "", label |-> "", value |-> 0, total |-> 0]

FnIdle == /\ fn_op = "" /\ fn_arg = <<>> /\ fn_res = <<>>

\* the state a run of the script starts in
Fresh ==
    /\ pc = "health"
    /\ calls = <<>>
    /\ bots_json = JNull /\ instances_json = JNull
    /\ bots_df = EmptyDF /\ inst_df = EmptyDF
    /\ metric = NoMetric /\ probe = NoProbe /\ panel = NoPanel
    /\ rendered = <<>> /\ errors = <<>>

Init ==
    /\ Fresh
    /\ cycle = 1
    /\ refresh_sec \in RefreshChoices
    /\ api_base \in BOOLEAN
    /\ backend = "any"
    /\ cache = [k \in AllKeys |-> NoEntry]
    /\ FnIdle

\* Health without st.stop(): the script goes on after the error
HealthNoStop ==
    /\ pc = "health"
    /\ \E resp \in Server(HealthPath) :
         LET r == api_get(HealthPath, NoParams, resp, cache, cycle)
         IN /\ cache' = r.cache
            /\ calls' = Append(calls, r.call)
            /\ rendered' = Append(rendered, "health")
            /\ pc' = "bots"
            /\ IF r.res[1] = "ok"
               THEN /\ panel' = Shown("health", EmptyDF, <<>>, NoErr, FALSE)
                    /\ errors' = errors
               ELSE /\ panel' = Shown("health", EmptyDF, <<>>, r.res, FALSE)
                    /\ errors' = Append(errors, r.res)
    /\ UNCHANGED <<cycle, refresh_sec, api_base, backend, bots_json, instances_json,
                   bots_df, inst_df, metric, probe, fn_op, fn_arg, fn_res>>

\* lines 75-81
Health ==
    /\ pc = "health"
    /\ \E resp \in Server(HealthPath) :
         LET r == api_get(HealthPath, NoParams, resp, cache, cycle)
         IN /\ cache' = r.cache
            /\ calls' = Append(calls, r.call)
            /\ rendered' = Append(rendered, "health")
            /\ IF r.res[1] = "ok"
               THEN /\ pc' = "bots"
                    /\ panel' = Shown("health", EmptyDF, <<>>, NoErr, FALSE)
                    /\ errors' = errors
               ELSE /\ pc' = "stopped"
                    /\ panel' = Shown("health", EmptyDF, <<>>, r.res, FALSE)
                    /\ errors' = Append(errors, r.res)
    /\ UNCHANGED <<cycle, refresh_sec, api_base, backend, bots_json, instances_json,
                   bots_df, inst_df, metric, probe, fn_op, fn_arg, fn_res>>

\* FetchBots without the try around the /bots fetch
FetchBotsUncaught ==
    /\ pc = "bots"
    /\ \E rb \in Server(BotsPath), ri \in Server(InstancesPath) :
         LET b == api_get(BotsPath, NoParams, rb, cache, cycle)
             i == api_get(InstancesPath, NoParams, ri, b.cache, cycle)
         IN IF b.res[1] = "ok"
            THEN /\ bots_json' = b.res[2]
                 /\ instances_json' = (IF i.res[1] = "ok" THEN i.res[2] ELSE JNull)
                 /\ cache' = i.cache
                 /\ calls' = calls \o <<b.call, i.call>>
                 /\ pc' = "metric"
            ELSE /\ UNCHANGED <<bots_json, instances_json>>
                 /\ cache' = b.cache
                 /\ calls' = Append(calls, b.call)
                 /\ pc' = "crashed"
    /\ UNCHANGED <<cycle, refresh_sec, api_base, backend, bots_df, inst_df, metric,
                   probe, panel, rendered, errors, fn_op, fn_arg, fn_res>>

\* lines 85-96
FetchBots ==
    /\ pc = "bots"
    /\ \E rb \in Server(BotsPath), ri \in Server(InstancesPath) :
         LET b == api_get(BotsPath, NoParams, rb, cache, cycle)
             i == api_get(InstancesPath, NoParams, ri, b.cache, cycle)
         IN /\ bots_json' = (IF b.res[1] = "ok" THEN b.res[2] ELSE JNull)
            /\ instances_json' = (IF i.res[1] = "ok" THEN i.res[2] ELSE JNull)
            /\ cache' = i.cache
            /\ calls' = calls \o <<b.call, i.call>>
    /\ pc' = "metric"
    /\ UNCHANGED <<cycle, refresh_sec, api_base, backend, bots_df, inst_df, metric, probe,
                   panel, rendered, errors, fn_op, fn_arg, fn_res>>

\* lines 98-120
RunningMetric ==
    /\ pc = "metric"
    /\ LET m == running_metric(bots_json, instances_json)
       IN IF m.exc # ""
          THEN /\ pc' = "crashed"
               /\ UNCHANGED <<bots_df, inst_df, metric, panel, rendered>>
          ELSE /\ pc' = "pnl"
               /\ bots_df' = df_safe(bots_json)
               /\ inst_df' = df_safe(instances_json)
               /\ metric' = m
               /\ panel' = Shown("bots", EmptyDF, <<>>, NoErr, m.label = "Bots")
               /\ rendered' = Append(rendered, "bots")
    /\ UNCHANGED <<cycle, refresh_sec, api_base, backend, cache, calls, bots_json,
                   instances_json, probe, errors, fn_op, fn_arg, fn_res>>

\* lines 134-163, 180-187 and 201-207
show_panel(name, df, err) ==
    IF name = "pnl" THEN pnl_panel(df, err)
    ELSE IF name = "orders" THEN table_panel(name, df, err, orders_pref)
    ELSE table_panel(name, df, err, trades_pref)

\* a probe loop over paths followed by its panel
ProbePanel(at, next, name, paths, params) ==
    /\ pc = at
    /\ \E resps \in [1..Len(paths) -> UNION {Server(paths[i]) : i \in 1..Len(paths)}] :
         LET p == probe_loop(paths, params, resps, cache, cycle)
         IN /\ cache' = p.cache
            /\ calls' = calls \o CallsOf(p.tried)
            /\ probe' = [df |-> p.df, err |-> p.err, tried |-> p.tried]
            /\ panel' = show_panel(name, p.df, p.err)
    /\ rendered' = Append(rendered, name)
    /\ pc' = next
    /\ UNCHANGED <<cycle, refresh_sec, api_base, backend, bots_json, instances_json,
                   bots_df, inst_df, metric, errors, fn_op, fn_arg, fn_res>>

\* lines 123-163
PnLPanel == ProbePanel("pnl", "orders", "pnl", PnLPaths, NoParams)
\* lines 168-187
OrdersPanel == ProbePanel("orders", "trades", "orders", OrdersPaths, NoParams)
\* lines 189-207
TradesPanel == ProbePanel("trades", "tab", "trades", TradesPaths, Limit500)

\* lines 209-215
BotsTab ==
    /\ pc = "tab"
    /\ panel' = Shown("bots_tab", bots_df,
                      (IF IsEmpty(bots_df) THEN <<>> ELSE <<"Bots">>)
                      \o (IF IsEmpty(inst_df) THEN <<>> ELSE <<"Instances">>),
                      NoErr, FALSE)
    /\ rendered' = Append(rendered, "bots_tab")
    /\ pc' = "sleep"
    /\ UNCHANGED <<cycle, refresh_sec, api_base, backend, cache, calls, bots_json,
                   instances_json, bots_df, inst_df, metric, probe, errors,
                   fn_op, fn_arg, fn_res>>

\* lines 217-219: sleep, then the script runs again from the top
SleepRerun ==
    /\ pc = "sleep"
    /\ cycle < MaxCycles
    /\ cache' = AgeCache(cache, refresh_sec)
    /\ cycle' = cycle + 1
    /\ pc' = "health"
    /\ calls' = <<>>
    /\ bots_json' = JNull /\ instances_json' = JNull
    /\ bots_df' = EmptyDF /\ inst_df' = EmptyDF
    /\ metric' = NoMetric /\ probe' = NoProbe /\ panel' = NoPanel
    /\ rendered' = <<>> /\ errors' = <<>>
    /\ UNCHANGED <<refresh_sec, api_base, backend, fn_op, fn_arg, fn_res>>

Next == \/ Health \/ FetchBots \/ RunningMetric \/ PnLPanel \/ OrdersPanel
        \/ TradesPanel \/ BotsTab \/ SleepRerun

Spec == Init /\ [][Next]_vars

\* the same script with the slider at its minimum or its default, against
\* an API that serves only part of the paths
InitCache ==
    /\ Fresh
    /\ cycle = 1
    /\ refresh_sec \in RefreshChoicesShort
    /\ api_base = TRUE
    /\ backend = "partial"
    /\ cache = [k \in AllKeys |-> NoEntry]
    /\ FnIdle

SpecCache == InitCache /\ [][Next]_vars

-----------------------------------------------------------------------------
(* The running count on its own: the script about to run lines 98-120     *)
(* with the health check passed and /bots and /instances fetched.          *)

MaxRows == 4        \* rows of a /bots table
MaxLen == 2         \* elements of a JSON array handed to df_safe
MaxKeys == 3        \* keys of a JSON object handed to df_safe
MaxCols == 3        \* columns of a table handed to a resolver

SeqsUpTo(S, n) == UNION {[1..k -> S] : k \in 0..n}
Distinct(s) == \A i, j \in 1..Len(s) : i # j => s[i] # s[j]

StatusValues == {JStr(s_RUNNING), JStr(s_stopped), JStr(s_ACTIVE_now), JNum(0),
                 JBool(TRUE)}

\* /bots bodies: rows that hold one value each under the key k, plain or
\* behind an id
BotsTables ==
    {JArr([i \in 1..Len(vs) |-> JObj(<<<<k, vs[i]>>>>)]) :
        vs \in SeqsUpTo(StatusValues, MaxRows), k \in {s_status, s_STATE, s_name}}
    \cup {JArr([i \in 1..Len(vs) |-> JObj(<<<<s_id, JNum(i)>>, <<s_running, vs[i]>>>>)]) :
        vs \in SeqsUpTo(StatusValues, MaxRows)}

InstancesTables ==
    {b_empty, b_rows, b_scalars,
     JArr(<<JObj(<<<<s_name, JStr(s_ok)>>>>), JObj(<<<<s_name, JStr(s_run)>>>>),
            JObj(<<<<s_name, JStr(s_ok)>>>>)>>)}

\* the call record and cache entry a fetch of path leaves behind
FetchedCall(path, json) ==
    [path |-> path, via |-> "http", ok |-> json # JNull, born |-> 1]
FetchedCache(bj, ij) ==
    [k \in AllKeys |->
        IF k = Key(HealthPath, NoParams) THEN Entry(b_health, 0, 1)
        ELSE IF k = Key(BotsPath, NoParams) /\ bj # JNull THEN Entry(bj, 0, 1)
        ELSE IF k = Key(InstancesPath, NoParams) /\ ij # JNull THEN Entry(ij, 0, 1)
        ELSE NoEntry]

InitCount ==
    /\ pc = "metric"
    /\ cycle = 1
    /\ refresh_sec = SliderDefault
    /\ api_base = TRUE
    /\ backend = "any"
    /\ bots_json \in BotsTables \cup {JNull}
    /\ instances_json \in InstancesTables \cup {JNull}
    /\ cache = FetchedCache(bots_json, instances_json)
    /\ calls = <<FetchedCall(HealthPath, b_health), FetchedCall(BotsPath, bots_json),
                 FetchedCall(InstancesPath, instances_json)>>
    /\ bots_df = EmptyDF /\ inst_df = EmptyDF
    /\ metric = NoMetric /\ probe = NoProbe
    /\ panel = Shown("health", EmptyDF, <<>>, NoErr, FALSE)
    /\ rendered = <<"health">> /\ errors = <<>>
    /\ FnIdle

SpecCount == InitCount /\ [][RunningMetric]_vars

-----------------------------------------------------------------------------
(* df_safe, the status column and pick applied on their own.               *)

Pending == <<"pending">>
Done(v) == <<"done", v>>

\* the script's variables while a helper is applied on its own
Idle ==
    /\ pc = "fn"
    /\ cycle = 1
    /\ refresh_sec = SliderDefault
    /\ api_base = TRUE
    /\ backend = "any"
    /\ cache = [k \in AllKeys |-> NoEntry]
    /\ calls = <<>>
    /\ bots_json = JNull /\ instances_json = JNull
    /\ bots_df = EmptyDF /\ inst_df = EmptyDF
    /\ metric = NoMetric /\ probe = NoProbe /\ panel = NoPanel
    /\ rendered = <<>> /\ errors = <<>>

ScriptVars == <<pc, cycle, refresh_sec, api_base, backend, cache, calls,
                bots_json, instances_json, bots_df, inst_df, metric, probe,
                panel, rendered, errors>>

NormElems == {JNum(1), JStr(s_ok), JNull, row_run, row_stop, JObj(<<>>),
              JArr(<<JNum(1), JNum(2)>>), JArr(<<>>)}
NormArrays == {JArr(s) : s \in SeqsUpTo(NormElems, MaxLen)}
EnvKeys == {s_data, s_result, s_items, s_name}
EnvValues == {JNum(5), b_empty, JArr(<<row_run>>), JArr(<<row_stop, JNum(1)>>)}
NormObjects ==
    {JObj(ps) : ps \in {s \in SeqsUpTo(EnvKeys \X EnvValues, MaxKeys) :
                          Distinct([i \in 1..Len(s) |-> s[i][1]])}}
NormInputs == {JNull, JNum(7), JStr(s_ok), JBool(TRUE)} \cup NormArrays \cup NormObjects

InitNorm ==
    /\ Idle
    /\ fn_op = "df_safe"
    /\ fn_arg \in NormInputs
    /\ fn_res = Pending

ApplyDfSafe ==
    /\ fn_op = "df_safe"
    /\ fn_res = Pending
    /\ fn_res' = Done(df_safe(fn_arg))
    /\ UNCHANGED <<ScriptVars, fn_op, fn_arg>>

SpecNorm == InitNorm /\ [][ApplyDfSafe]_vars

\* one-row tables as df_safe makes them of an object with the given keys
TableOf(keys) == df_safe(JObj([i \in 1..Len(keys) |-> <<keys[i], JNum(i)>>]))
StatusKeys == {s_status, s_Status, s_state, s_STATE, s_running, s_name, s_id}
FieldKeys == {s_pnl, s_PNL, s_profit, s_net_pnl, s_pnl_total, s_ts, s_Timestamp,
              s_volume}
KeyLists(S) == {s \in SeqsUpTo(S, MaxCols) : Distinct(s)}
\* tables with integer labels, as df_safe makes them of scalars and of lists
IntTables == {df_safe(b_scalars), df_safe(JArr(<<JArr(<<JNum(1), JStr(s_ok)>>)>>))}

InitResolve ==
    /\ Idle
    /\ \/ /\ fn_op = "status_col"
          /\ \E d \in {TableOf(ks) : ks \in KeyLists(StatusKeys)} \cup IntTables :
                fn_arg = [df |-> d, names |-> <<>>]
       \/ /\ fn_op = "pick"
          /\ \E d \in {TableOf(ks) : ks \in KeyLists(FieldKeys)} \cup IntTables,
                ns \in {ts_names, pnl_names, vol_names} :
                fn_arg = [df |-> d, names |-> ns]
    /\ fn_res = Pending

ApplyStatusCol ==
    /\ fn_op = "status_col"
    /\ fn_res = Pending
    /\ fn_res' = Done(status_col(fn_arg.df))
    /\ UNCHANGED <<ScriptVars, fn_op, fn_arg>>

ApplyPick ==
    /\ fn_op = "pick"
    /\ fn_res = Pending
    /\ fn_res' = Done(pick(fn_arg.df, fn_arg.names))
    /\ UNCHANGED <<ScriptVars, fn_op, fn_arg>>

NextResolve == ApplyStatusCol \/ ApplyPick

SpecResolve == InitResolve /\ [][NextResolve]_vars

-----------------------------------------------------------------------------
(* Properties of the helpers.                                              *)

FnDone(op) == fn_op = op /\ fn_res # Pending
IsScalar(v) == Tag(v) \in {"num", "str", "bool"}

\* the envelope key the text names: data, then result, then items, the
\* first one whose value is an array
ClaimedEnvelope(obj) ==
    IF HasKey(obj, s_data) /\ IsList(Get(obj, s_data)) THEN <<s_data>>
    ELSE IF HasKey(obj, s_result) /\ IsList(Get(obj, s_result)) THEN <<s_result>>
    ELSE IF HasKey(obj, s_items) /\ IsList(Get(obj, s_items)) THEN <<s_items>>
    ELSE <<>>

\* C9: normalizing an object is normalizing the array under the first of
\* data, result, items that holds an array (a key of higher priority whose
\* value is no array is skipped); an object without such a key becomes one
\* row whose columns are the object's keys.
C9_Envelope ==
    (FnDone("df_safe") /\ IsDict(fn_arg)) =>
        LET k == ClaimedEnvelope(fn_arg)
        IN IF k # <<>>
           THEN fn_res[2] = df_safe(Get(fn_arg, k[1]))
           ELSE /\ ~IsRaised(fn_res[2])
                /\ NRows(fn_res[2]) = 1
                /\ fn_res[2].cols = [i \in 1..Len(fn_arg[2]) |-> StrCol(fn_arg[2][i][1])]

\* an object whose data is no array and whose result is one has been normalized
C9_Witness ==
    /\ FnDone("df_safe") /\ IsDict(fn_arg)
    /\ HasKey(fn_arg, s_data) /\ ~IsList(Get(fn_arg, s_data))
    /\ HasKey(fn_arg, s_result) /\ Get(fn_arg, s_result) = JArr(<<row_run>>)
    /\ HasKey(fn_arg, s_items) /\ Get(fn_arg, s_items) = b_empty
    /\ fn_res[2] = df_safe(JArr(<<row_run>>))

\* C10: normalization never raises, whatever the JSON value, and null, the
\* empty array and a bare scalar give the table without rows and columns.
C10_Total ==
    FnDone("df_safe") =>
        /\ ~IsRaised(fn_res[2])
        /\ (fn_arg = JNull \/ fn_arg = b_empty \/ IsScalar(fn_arg)) => fn_res[2] = EmptyDF

\* the names in priority order
StatusPriority == <<s_status, s_state, s_running>>
LowerOfCol(c) == IF c[1] = "s" THEN Lower(c[2]) ELSE <<>>

-----------------------------------------------------------------------------
(* The running count.                                                      *)

\* the rows of a fetched body: a list, or the list under data
JsonRows(json) ==
    IF json = JNull THEN <<>>
    ELSE IF IsList(json) THEN json[2]
    ELSE Get(json, s_data)[2]

\* the key of the rows that names a status column (<<>> when none does)
StatusKey(rows) ==
    LET ks == Keys(rows[1])
        hits == SelectSeq(ks, LAMBDA k : Lower(k) \in {s_status, s_state, s_running})
    IN IF hits = <<>> THEN <<>> ELSE <<hits[1]>>

\* a string form that contains run, true, active or online, ignoring case
ClaimedRunning(v) ==
    LET s == Lower(StrForm(v))
    IN Contains(s, s_run) \/ Contains(s, s_true) \/ Contains(s, s_active)
       \/ Contains(s, s_online)

ClaimedCount(rows) ==
    IF StatusKey(rows) = <<>> THEN Len(rows)
    ELSE Cardinality({i \in 1..Len(rows) :
                        ClaimedRunning(Get(rows[i], StatusKey(rows)[1]))})

ExampleStatuses == <<JStr(s_RUNNING), JStr(s_stopped), JStr(s_ACTIVE_now), JNum(0)>>
ExampleBots == JArr([i \in 1..4 |-> JObj(<<<<s_status, ExampleStatuses[i]>>>>)])

\* C8: the running count is the number of rows whose status value contains
\* run, true, active or online (ignoring case) when a status column is
\* resolved, the row count when none is, always within 0..rows; it is taken
\* from the bots table when that is non-empty and from the instances table
\* only when bots is empty; RUNNING, stopped, ACTIVE_now, 0 count 2.
C8_RunningCount ==
    (pc = "pnl" /\ rendered = <<"health", "bots">>) =>
        LET b == JsonRows(bots_json)
            i == JsonRows(instances_json)
            used == IF b # <<>> THEN b ELSE i
        IN /\ metric.label = (IF b # <<>> THEN "Bots (running)"
                              ELSE IF i # <<>> THEN "Instances (running)" ELSE "Bots")
           /\ used # <<>> =>
                /\ metric.value = ClaimedCount(used)
                /\ metric.total = Len(used)
                /\ metric.value \in 0..Len(used)
           /\ bots_json = ExampleBots => metric.value = 2

\* the example table has been counted, with instances fetched as well
C8_Witness ==
    /\ pc = "pnl"
    /\ bots_json = ExampleBots
    /\ instances_json = b_rows
    /\ metric = [exc |-> "", label |-> "Bots (running)", value |-> 2, total |-> 4]

-----------------------------------------------------------------------------
(* Properties of the cycle.                                                *)

\* a probe loop has just run and its panel is on the page
ProbeRan == panel.name \in {"pnl", "orders", "trades"}
PathsOf(name) == IF name = "pnl" THEN PnLPaths
                 ELSE IF name = "orders" THEN OrdersPaths ELSE TradesPaths
ParamsOf(name) == IF name = "trades" THEN Limit500 ELSE NoParams

\* the table pass i of the last probe loop got (the empty table when the
\* fetch or the normalization failed)
TableOfTry(i) ==
    LET c == probe.tried[i].call
        d == df_safe(cache[Key(c.path, ParamsOf(panel.name))][2])
    IN IF c.ok /\ ~IsRaised(d) THEN d ELSE EmptyDF
FailedTry(i) ==
    LET c == probe.tried[i].call
    IN ~c.ok \/ IsRaised(df_safe(cache[Key(c.path, ParamsOf(panel.name))][2]))

\* C1: the candidates of a list are requested in list order, each at most
\* once in a cycle, none after the first whose table is non-empty, and that
\* table is the one the panel uses.
C1_ShortCircuit ==
    /\ \A i, j \in 1..Len(calls) : i # j => calls[i].path # calls[j].path
    /\ ProbeRan =>
         LET paths == PathsOf(panel.name)
             n == Len(probe.tried)
         IN /\ n \in 1..Len(paths)
            /\ \A i \in 1..n : probe.tried[i].call.path = paths[i]
            /\ \A i \in 1..(n - 1) : IsEmpty(TableOfTry(i))
            /\ n < Len(paths) => ~IsEmpty(TableOfTry(n))
            /\ ~IsEmpty(TableOfTry(n)) => panel.table = TableOfTry(n)

\* /orders/open came back empty, /orders with rows, and nothing else was asked
C1_Witness ==
    /\ panel.name = "orders"
    /\ Len(probe.tried) = 2
    /\ probe.tried[1].call.ok /\ IsEmpty(TableOfTry(1))
    /\ ~IsEmpty(TableOfTry(2))
    /\ panel.table = df_safe(b_rows)

\* C2: with no candidate giving a non-empty table the panel gets the empty
\* table and the error of the last candidate that failed (none if none
\* failed); with one giving a non-empty table the panel gets that table and
\* shows no error.
C2_ProbeError ==
    ProbeRan =>
        LET n == Len(probe.tried)
            failed == {i \in 1..n : FailedTry(i)}
        IN IF \E i \in 1..n : ~IsEmpty(TableOfTry(i))
           THEN /\ \E i \in 1..n : panel.table = TableOfTry(i) /\ ~IsEmpty(panel.table)
                /\ panel.caption = NoErr
           ELSE /\ n = Len(PathsOf(panel.name))
                /\ IsEmpty(panel.table)
                /\ panel.caption = (IF failed = {} THEN NoErr
                                    ELSE probe.tried[MaxOf(failed)].err)

\* the first and the third orders candidate failed, the others were empty
C2_Witness ==
    /\ panel.name = "orders"
    /\ Len(probe.tried) = 4
    /\ FailedTry(1) /\ ~FailedTry(2) /\ FailedTry(3) /\ ~FailedTry(4)
    /\ panel.caption = Err("request", "/active_orders")
    /\ IsEmpty(panel.table)

\* C3: a failed health fetch halts the cycle at once: no other fetch, no
\* other panel, exactly one st.error; with API_BASE unset no HTTP request
\* at all.
C3_HealthFatal ==
    /\ [](pc = "stopped" =>
            /\ Len(calls) = 1 /\ calls[1].path = HealthPath /\ ~calls[1].ok
            /\ rendered = <<"health">>
            /\ Len(errors) = 1 /\ errors[1] = panel.caption)
    /\ [](~api_base => \A i \in 1..Len(calls) : calls[i].via = "none")
    /\ [][(pc = "health" /\ ~calls'[Len(calls')].ok) => pc' = "stopped"]_vars
    /\ [][pc = "stopped" => UNCHANGED vars]_vars

\* the health fetch got a non-2xx status and the script has stopped
C3_Witness ==
    /\ pc = "stopped"
    /\ api_base
    /\ calls = <<[path |-> HealthPath, via |-> "http", ok |-> FALSE, born |-> cycle]>>
    /\ errors = <<Err("http", HealthPath)>>

AllPanels == <<"health", "bots", "pnl", "orders", "trades", "bots_tab">>
StageAfter(p) == CASE p = "bots" -> "metric" [] p = "pnl" -> "orders"
                   [] p = "orders" -> "trades" [] p = "trades" -> "tab"
FirstPaths == {BotsPath, InstancesPath, PnLPaths[1], OrdersPaths[1], TradesPaths[1]}

\* C4: after a passed health check no failed fetch aborts the cycle: the
\* step a fetch fails in moves on to the next section, the script only ever
\* dies on a body it did fetch, and at the sleep all panels are rendered in
\* order with every resource fetched.
C4_FailuresIsolated ==
    /\ [][(/\ pc \in {"bots", "pnl", "orders", "trades"}
           /\ \E i \in (Len(calls) + 1)..Len(calls') : ~calls'[i].ok)
          => pc' = StageAfter(pc)]_vars
    /\ [][pc' = "crashed" =>
            /\ pc = "metric"
            /\ calls[2].ok \/ calls[3].ok
            /\ ~calls[2].ok => df_safe(bots_json) = EmptyDF
            /\ ~calls[3].ok => df_safe(instances_json) = EmptyDF]_vars
    /\ [](pc = "sleep" =>
            /\ rendered = AllPanels
            /\ FirstPaths \subseteq {calls[i].path : i \in 1..Len(calls)})

\* every fetch after the health check failed and the script is at its sleep
C4_Witness ==
    /\ pc = "sleep"
    /\ Len(calls) = 13
    /\ calls[1].ok
    /\ \A i \in 2..13 : ~calls[i].ok
    /\ rendered = AllPanels

\* C5: what a panel uses in a cycle was fetched by an HTTP request of that
\* same cycle, whatever the refresh interval.
C5_FreshEveryCycle ==
    \A i \in 1..Len(calls) :
        calls[i].ok => (calls[i].via = "http" /\ calls[i].born = cycle)

====
